---------------------------- MODULE Spec2Model ----------------------------
(***************************************************************************)
(* Model of the inventory chatbot gateway: the response normaliser of      *)
(* LLMClient.chat (src/llm_client.py) and the session handling of          *)
(* RequestHandler._handle_chat under HTTPServer (src/server.py).           *)
(*                                                                         *)
(* Text is modelled character by character: a Python str is a sequence of  *)
(* one-character values, each character a TLA+ string naming it.           *)
(***************************************************************************)
EXTENDS Integers, Sequences, FiniteSets, TLC

(***************************************************************************)
(* Characters.                                                             *)
(***************************************************************************)
DQ  == "\""       \* double quote
BSL == "\\"       \* backslash
NL  == "NL"       \* 0x0a
TAB == "TAB"      \* 0x09
CR  == "CR"       \* 0x0d
FF  == "FF"       \* 0x0c, a control character that str.strip() treats as space
SOH == "SOH"      \* 0x01, a control character that is not white space
DEL == "DEL"      \* 0x7f
SP  == " "
BT  == "BT"       \* backtick

\* the character class that re.sub removes at llm_client.py line 84
RemovedControl == {SOH, FF, DEL}

\* str.strip() with no argument: the characters of the alphabet it removes
PyWhitespace == {SP, NL, TAB, CR, FF}

\* json's WHITESPACE = [ \t\n\r]*
JsonWhitespace == {SP, NL, TAB, CR}

\* \s of a str pattern, over the characters that survive the sanitiser
ReWhitespace == {SP, NL, TAB, CR, FF}

\* characters below 0x20, which a strict JSON string may not hold raw
JsonControl == {NL, TAB, CR, FF, SOH}

(***************************************************************************)
(* Generic helpers.  Scans over the characters of a text are written with  *)
(* sets of indices, not recursion on the text, which keeps the evaluation  *)
(* shallow.                                                                *)
(***************************************************************************)
Min(S) == CHOOSE k \in S : \A j \in S : k <= j
Max(S) == CHOOSE k \in S : \A j \in S : j <= k

\* the first index >= i of s whose character is not in C (Len(s) + 1 if none)
SkipWhile(s, i, C) ==
    LET stops == {k \in i..Len(s) : s[k] \notin C} IN
    IF stops = {} THEN (IF i > Len(s) THEN i ELSE Len(s) + 1) ELSE Min(stops)

\* the first index >= i of s whose character is in C (Len(s) + 1 if none)
FindFirst(s, i, C) ==
    LET hits == {k \in i..Len(s) : s[k] \in C} IN
    IF hits = {} THEN (IF i > Len(s) THEN i ELSE Len(s) + 1) ELSE Min(hits)

RECURSIVE Flatten(_)
Flatten(ss) == IF ss = <<>> THEN <<>> ELSE Head(ss) \o Flatten(Tail(ss))

\* s[i:] and s[:j] (1-based, i inclusive)
From(s, i) == IF i > Len(s) THEN <<>> ELSE SubSeq(s, i, Len(s))
Upto(s, j) == IF j < 1 THEN <<>> ELSE SubSeq(s, 1, IF j > Len(s) THEN Len(s) ELSE j)

\* s.startswith(p) at position i
StartsWithAt(s, p, i) ==
    /\ i >= 1
    /\ i + Len(p) - 1 <= Len(s)
    /\ \A k \in 1..Len(p) : s[i + k - 1] = p[k]

startswith(s, p) == StartsWithAt(s, p, 1)

(***************************************************************************)
(* str.strip(): drop leading and trailing white space.                     *)
(***************************************************************************)
strip(s) ==
    LET kept == {k \in 1..Len(s) : s[k] \notin PyWhitespace} IN
    IF kept = {} THEN <<>> ELSE SubSeq(s, Min(kept), Max(kept))

(***************************************************************************)
(* str.split("\n") and "\n".join(lines).                                   *)
(***************************************************************************)
split(s) ==
    LET breaks == {k \in 1..Len(s) : s[k] = NL}
        \* the position of the j-th newline; 0 and Len(s) + 1 bound the text
        at(j) == IF j = 0 THEN 0
                 ELSE IF j > Cardinality(breaks) THEN Len(s) + 1
                 ELSE CHOOSE p \in breaks :
                          Cardinality({q \in breaks : q <= p}) = j
    IN  [j \in 1..(Cardinality(breaks) + 1) |->
            SubSeq(s, at(j - 1) + 1, at(j) - 1)]

RECURSIVE join(_)
join(lines) ==
    IF lines = <<>> THEN <<>>
    ELSE IF Len(lines) = 1 THEN lines[1]
    ELSE lines[1] \o <<NL>> \o join(Tail(lines))

Fence == <<BT, BT, BT>>

\* a slip: the closing fence line is never dropped
remove_code_block_first_line(content) ==
    IF startswith(content, Fence)
    THEN LET lines == split(content) IN join(SubSeq(lines, 2, Len(lines)))
    ELSE content

\* llm_client.py 150-158: remove a markdown code fence
remove_code_block(content) ==
    IF startswith(content, Fence)
    THEN LET lines == split(content)
         IN  IF startswith(strip(lines[Len(lines)]), Fence)
             THEN join(SubSeq(lines, 2, Len(lines) - 1))
             ELSE join(SubSeq(lines, 2, Len(lines)))
    ELSE content

(***************************************************************************)
(* LLMClient._clean_json_string                                            *)
(***************************************************************************)
remove_control(s) == SelectSeq(s, LAMBDA c : c \notin RemovedControl)

\* llm_client.py 87-89: the scanner's variables before the loop
clean_start == [in_string |-> FALSE, escape_next |-> FALSE, result |-> <<>>]

\* a slip: the scanner does not look at backslashes, so an escaped quote
\* toggles in_string
clean_step_no_escape(st, char) ==
    IF char = DQ
    THEN [st EXCEPT !.in_string = ~@, !.result = Append(@, char)]
    ELSE IF st.in_string /\ char = NL
    THEN [st EXCEPT !.result = @ \o <<BSL, "n">>]
    ELSE IF st.in_string /\ char = TAB
    THEN [st EXCEPT !.result = @ \o <<BSL, "t">>]
    ELSE [st EXCEPT !.result = Append(@, char)]

\* a slip: a newline inside a string is copied as it is
clean_step_keeps_newline(st, char) ==
    IF st.escape_next
    THEN [st EXCEPT !.result = Append(@, char), !.escape_next = FALSE]
    ELSE IF char = BSL
    THEN [st EXCEPT !.result = Append(@, char), !.escape_next = TRUE]
    ELSE IF char = DQ
    THEN [st EXCEPT !.in_string = ~@, !.result = Append(@, char)]
    ELSE IF st.in_string /\ char = TAB
    THEN [st EXCEPT !.result = @ \o <<BSL, "t">>]
    ELSE [st EXCEPT !.result = Append(@, char)]

\* a slip: a backslash inside a string is doubled
clean_step_doubles_backslash(st, char) ==
    IF st.escape_next
    THEN [st EXCEPT !.result = Append(@, char), !.escape_next = FALSE]
    ELSE IF char = BSL
    THEN [st EXCEPT !.result = IF st.in_string THEN @ \o <<BSL, BSL>>
                                               ELSE Append(@, char),
                    !.escape_next = ~st.in_string]
    ELSE IF char = DQ
    THEN [st EXCEPT !.in_string = ~@, !.result = Append(@, char)]
    ELSE IF st.in_string /\ char = NL
    THEN [st EXCEPT !.result = @ \o <<BSL, "n">>]
    ELSE IF st.in_string /\ char = TAB
    THEN [st EXCEPT !.result = @ \o <<BSL, "t">>]
    ELSE [st EXCEPT !.result = Append(@, char)]

\* llm_client.py 91-109: one iteration of the loop body
clean_step(st, char) ==
    IF st.escape_next
    THEN [st EXCEPT !.result = Append(@, char), !.escape_next = FALSE]
    ELSE IF char = BSL
    THEN [st EXCEPT !.result = Append(@, char), !.escape_next = TRUE]
    ELSE IF char = DQ
    THEN [st EXCEPT !.in_string = ~@, !.result = Append(@, char)]
    ELSE IF st.in_string /\ char = NL
    THEN [st EXCEPT !.result = @ \o <<BSL, "n">>]
    ELSE IF st.in_string /\ char = TAB
    THEN [st EXCEPT !.result = @ \o <<BSL, "t">>]
    ELSE [st EXCEPT !.result = Append(@, char)]

\* llm_client.py 90: for char in s, over s[lo..hi] from state st (the range
\* is halved so that the evaluation nests only logarithmically)
RECURSIVE clean_loop(_, _, _, _)
clean_loop(s, lo, hi, st) ==
    IF lo > hi THEN st
    ELSE IF lo = hi THEN clean_step(st, s[lo])
    ELSE LET mid  == (lo + hi) \div 2
             left == clean_loop(s, lo, mid, st)
         IN  \* the test makes TLC finish the left half before the right
             IF left.in_string \in BOOLEAN
             THEN clean_loop(s, mid + 1, hi, left)
             ELSE left

_clean_json_string(s) ==
    LET t == remove_control(s) IN clean_loop(t, 1, Len(t), clean_start).result

(***************************************************************************)
(* json.loads (strict): a decoded value is [t |-> kind, v |-> payload],    *)
(* with a str's payload its characters, a dict's payload its (key, value)  *)
(* pairs in document order, a number's payload its lexeme.                 *)
(***************************************************************************)
JStr(v)  == [t |-> "str", v |-> v]
JNum(v)  == [t |-> "num", v |-> v]
JLit(v)  == [t |-> "lit", v |-> v]
JArr(v)  == [t |-> "arr", v |-> v]
JObj(v)  == [t |-> "obj", v |-> v]
JNull    == JLit(<<"n", "u", "l", "l">>)

ParseFail == [ok |-> FALSE, val |-> JNull, pos |-> 0]
ParseOk(val, pos) == [ok |-> TRUE, val |-> val, pos |-> pos]

Digits == {"1"}
HexDigits == {"1", "a", "e"}

SkipWs(s, i) == SkipWhile(s, i, JsonWhitespace)

\* json.decoder BACKSLASH: the one-character escapes and what they decode to
Backslash(e) ==
    CASE e = DQ  -> DQ
      [] e = BSL -> BSL
      [] e = "/" -> "/"
      [] e = "n" -> NL
      [] e = "t" -> TAB
      [] e = "r" -> CR
      [] e = "f" -> FF
      [] e = "b" -> "BS"
      [] OTHER   -> "invalid"

\* json.decoder.py_scanstring with strict=True, from the character after
\* the opening quote: each round takes the chunk up to the next quote,
\* backslash or control character (STRINGCHUNK) and then that terminator
RECURSIVE scanstring(_, _, _)
scanstring(s, j, acc) ==
    LET t      == FindFirst(s, j, {DQ, BSL} \cup JsonControl)
        chunks == acc \o SubSeq(s, j, t - 1)
    IN  IF t > Len(s) THEN ParseFail                 \* unterminated
        ELSE IF s[t] = DQ THEN ParseOk(JStr(chunks), t + 1)
        ELSE IF s[t] # BSL THEN ParseFail            \* control character
        ELSE IF t + 1 > Len(s) THEN ParseFail
        ELSE IF s[t + 1] = "u"
        THEN IF t + 5 <= Len(s) /\ \A k \in 2..5 : s[t + k] \in HexDigits
             THEN scanstring(s, t + 6, Append(chunks, "U"))  \* a code point
             ELSE ParseFail
        ELSE IF Backslash(s[t + 1]) = "invalid" THEN ParseFail
        ELSE scanstring(s, t + 2, Append(chunks, Backslash(s[t + 1])))

SkipDigits(s, i) == SkipWhile(s, i, Digits)

\* json.scanner NUMBER_RE over the alphabet: digits, then an optional
\* exponent
scannumber(s, i) ==
    LET j == SkipDigits(s, i)
        k == IF j <= Len(s) /\ s[j] = "e" /\ SkipDigits(s, j + 1) > j + 1
             THEN SkipDigits(s, j + 1)
             ELSE j
    IN  ParseOk(JNum(SubSeq(s, i, k - 1)), k)

Literals == {<<"n", "u", "l", "l">>, <<"t", "r", "u", "e">>,
             <<"f", "a", "l", "s", "e">>}

RECURSIVE scan_once(_, _)
RECURSIVE JSONObject(_, _, _)
RECURSIVE JSONArray(_, _, _)

\* json.scanner.py_make_scanner._scan_once
scan_once(s, i) ==
    IF i > Len(s) THEN ParseFail
    ELSE IF s[i] = DQ THEN scanstring(s, i + 1, <<>>)
    ELSE IF s[i] = "{"
    THEN LET j == SkipWs(s, i + 1) IN
         IF j <= Len(s) /\ s[j] = "}" THEN ParseOk(JObj(<<>>), j + 1)
         ELSE JSONObject(s, j, <<>>)
    ELSE IF s[i] = "["
    THEN LET j == SkipWs(s, i + 1) IN
         IF j <= Len(s) /\ s[j] = "]" THEN ParseOk(JArr(<<>>), j + 1)
         ELSE JSONArray(s, j, <<>>)
    ELSE IF s[i] \in Digits THEN scannumber(s, i)
    ELSE IF \E lit \in Literals : StartsWithAt(s, lit, i)
    THEN LET lit == CHOOSE l \in Literals : StartsWithAt(s, l, i)
         IN  ParseOk(JLit(lit), i + Len(lit))
    ELSE ParseFail

\* json.decoder.JSONObject: the members loop, i at the next key's quote
JSONObject(s, i, pairs) ==
    IF i > Len(s) \/ s[i] # DQ THEN ParseFail
    ELSE LET key == scanstring(s, i + 1, <<>>) IN
         IF ~key.ok THEN ParseFail
         ELSE LET c == SkipWs(s, key.pos) IN
              IF c > Len(s) \/ s[c] # ":" THEN ParseFail
              ELSE LET value == scan_once(s, SkipWs(s, c + 1)) IN
                   IF ~value.ok THEN ParseFail
                   ELSE LET e == SkipWs(s, value.pos)
                            more == Append(pairs, <<key.val.v, value.val>>)
                        IN  IF e > Len(s) THEN ParseFail
                            ELSE IF s[e] = "}" THEN ParseOk(JObj(more), e + 1)
                            ELSE IF s[e] # "," THEN ParseFail
                            ELSE JSONObject(s, SkipWs(s, e + 1), more)

\* json.decoder.JSONArray: the elements loop, i at the next value
JSONArray(s, i, values) ==
    LET value == scan_once(s, i) IN
    IF ~value.ok THEN ParseFail
    ELSE LET e == SkipWs(s, value.pos)
             more == Append(values, value.val)
         IN  IF e > Len(s) THEN ParseFail
             ELSE IF s[e] = "]" THEN ParseOk(JArr(more), e + 1)
             ELSE IF s[e] # "," THEN ParseFail
             ELSE JSONArray(s, SkipWs(s, e + 1), more)

\* json.loads(content): ok is FALSE where it raises JSONDecodeError
json_loads(s) ==
    LET r == scan_once(s, SkipWs(s, 1)) IN
    IF ~r.ok THEN ParseFail
    ELSE IF SkipWs(s, r.pos) # Len(s) + 1 THEN ParseFail   \* Extra data
    ELSE r

(***************************************************************************)
(* The re.search calls of llm_client.py lines 183 and 187 (a quoted key,   *)
(* white space, a colon, white space, a quoted group of non-quote runs      *)
(* and backslash pairs), as the backtracking matcher runs the pattern:     *)
(* greedy, first success wins.                                             *)
(***************************************************************************)
SkipReWs(s, i) == SkipWhile(s, i, ReWhitespace)

\* the end of the longest run of non-quote characters from p
NonQuoteEnd(s, p) == FindFirst(s, p, {DQ})

RECURSIVE match_escapes(_, _)
RECURSIVE match_nonquote(_, _, _)

\* the starred group (a backslash, any character, a non-quote run) and then
\* the closing quote, from p: the index of the closing quote, or 0 when
\* nothing matches
match_escapes(s, p) ==
    LET once == IF p + 1 <= Len(s) /\ s[p] = BSL
                THEN match_nonquote(s, p + 2, NonQuoteEnd(s, p + 2))
                ELSE 0
    IN  IF once # 0 THEN once
        ELSE IF p <= Len(s) /\ s[p] = DQ THEN p
        ELSE 0

\* a non-quote run ending at q, then the rest; gives characters back down
\* to lo, and the longest run from which the rest matches wins
match_nonquote(s, lo, q) ==
    LET ends == {p \in lo..q : match_escapes(s, p) # 0} IN
    IF ends = {} THEN 0 ELSE match_escapes(s, Max(ends))

NoMatch == [found |-> FALSE, group |-> <<>>]

\* the pattern anchored at i
match_at(key, s, i) ==
    IF ~StartsWithAt(s, <<DQ>> \o key \o <<DQ>>, i) THEN NoMatch
    ELSE LET c == SkipReWs(s, i + Len(key) + 2) IN
         IF c > Len(s) \/ s[c] # ":" THEN NoMatch
         ELSE LET o == SkipReWs(s, c + 1) IN
              IF o > Len(s) \/ s[o] # DQ THEN NoMatch
              ELSE LET e == match_nonquote(s, o + 1, NonQuoteEnd(s, o + 1)) IN
                   IF e = 0 THEN NoMatch
                   ELSE [found |-> TRUE, group |-> SubSeq(s, o + 1, e - 1)]

\* re.search: the leftmost position at which the pattern matches
re_search(key, s) ==
    LET starts == {i \in 1..Len(s) : match_at(key, s, i).found} IN
    IF starts = {} THEN NoMatch ELSE match_at(key, s, Min(starts))

\* str.replace(old, new) for old = a b with a # b (occurrences of such a
\* pair cannot overlap, so every occurrence is replaced) and a
\* one-character new
replace2(s, a, b, new) ==
    LET at(k)   == k >= 1 /\ k + 1 <= Len(s) /\ s[k] = a /\ s[k + 1] = b
        marked  == [k \in 1..Len(s) |->
                       <<IF at(k) THEN new ELSE s[k], ~at(k - 1)>>]
        kept    == SelectSeq(marked, LAMBDA m : m[2])
    IN  [k \in 1..Len(kept) |-> kept[k][1]]

\* llm_client.py 185, 189: the two str.replace calls on the group
unescape(g) == replace2(replace2(g, BSL, "n", NL), BSL, DQ, DQ)

KeyAnswer   == <<"a", "n", "s", "w", "e", "r">>
KeySqlQuery == <<"s", "q", "l", "_", "q", "u", "e", "r", "y">>

(***************************************************************************)
(* LLMClient.chat, from the backend call's outcome to the result dict.     *)
(* An outcome is what self.client.chat.completions.create did: it raised,  *)
(* or it returned a message content (None, or text) and a usage object.    *)
(***************************************************************************)
Absent == -1      \* a usage attribute that is missing or None

NoUsage == [prompt_tokens |-> Absent, completion_tokens |-> Absent,
            total_tokens |-> Absent]

ZeroUsage == [prompt_tokens |-> 0, completion_tokens |-> 0, total_tokens |-> 0]

Raised          == [kind |-> "raise", content |-> <<>>, usage |-> NoUsage]
Replied(c, u)   == [kind |-> "reply", content |-> c, usage |-> u]
RepliedNone(u)  == [kind |-> "none", content |-> <<>>, usage |-> u]

\* getattr(usage, name, 0) or 0
usage_count(v) == IF v = Absent THEN 0 ELSE v

\* llm_client.py 140-145
token_usage(usage) ==
    [prompt_tokens     |-> usage_count(usage.prompt_tokens),
     completion_tokens |-> usage_count(usage.completion_tokens),
     total_tokens      |-> usage_count(usage.total_tokens)]

\* dict.get(key, default) on a decoded object: the last pair with the key
dict_get(pairs, key, default) ==
    LET hits == {i \in 1..Len(pairs) : pairs[i][1] = key} IN
    IF hits = {} THEN default
    ELSE pairs[CHOOSE i \in hits : \A j \in hits : j <= i][2]

EmptyStr == JStr(<<>>)

FailedToParse ==
    <<"F", "a", "i", "l", "e", "d", " ", "t", "o", " ", "p", "a", "r", "s",
      "e", " ", "r", "e", "s", "p", "o", "n", "s", "e">>

\* llm_client.py 147-161: content after strip, fence removal and cleaning
cleaned_content(content) ==
    _clean_json_string(remove_code_block(strip(content)))

\* a slip: the generic except branch leaves error_message out
exception_result_no_message(name) ==
    [natural_language_answer |-> JStr(<<>>),
     sql_query               |-> JStr(<<>>),
     token_usage             |-> ZeroUsage,
     status                  |-> "error",
     error_message           |-> "None"]

\* llm_client.py 212-223: the generic except branch
exception_result(name) ==
    [natural_language_answer |-> EmptyStr,
     sql_query               |-> EmptyStr,
     token_usage             |-> ZeroUsage,
     status                  |-> "error",
     error_message           |-> name]

\* the exception classes of the model; all of them derive from Exception
ExceptionClasses ==
    {"APIConnectionError", "AuthenticationError", "BackendError",
     "JSONDecodeError", "AttributeError"}

\* the exception leaves chat: no dict is returned to the caller
propagated(name) ==
    [natural_language_answer |-> EmptyStr,
     sql_query               |-> EmptyStr,
     token_usage             |-> ZeroUsage,
     status                  |-> "raised",
     error_message           |-> name]

\* a slip: the last clause names the errors of the backend call only
except_clause_backend_only(name) ==
    IF name = "JSONDecodeError" THEN "decode"
    ELSE IF name \in {"APIConnectionError", "AuthenticationError", "BackendError"}
    THEN "generic"
    ELSE "none"

\* llm_client.py 174, 212: the except clause of chat that catches an
\* exception raised in its try block
except_clause(name) ==
    IF name = "JSONDecodeError" THEN "decode"
    ELSE IF name \in ExceptionClasses THEN "generic"
    ELSE "none"

\* llm_client.py 212-223: an exception that is no JSONDecodeError is turned
\* into an error result by the clause that catches it
handle_exception(name) ==
    IF except_clause(name) = "generic"
    THEN exception_result(name)
    ELSE propagated(name)

\* llm_client.py 165-173: the strict parse succeeded
parsed_result(parsed, usage) ==
    IF parsed.t # "obj" THEN handle_exception("AttributeError")
    ELSE [natural_language_answer |-> dict_get(parsed.v, KeyAnswer, EmptyStr),
          sql_query               |-> dict_get(parsed.v, KeySqlQuery, EmptyStr),
          token_usage             |-> token_usage(usage),
          status                  |-> "ok",
          error_message           |-> "None"]

\* llm_client.py 174-211: the JSONDecodeError branch
fallback_result(raw_content, usage) ==
    LET answer_match == re_search(KeyAnswer, raw_content)
        sql_match    == re_search(KeySqlQuery, raw_content)
        answer    == IF raw_content # <<>> /\ answer_match.found
                     THEN unescape(answer_match.group) ELSE <<>>
        sql_query == IF raw_content # <<>> /\ sql_match.found
                     THEN unescape(sql_match.group) ELSE <<>>
    IN  IF answer # <<>>
        THEN [natural_language_answer |-> JStr(answer),
              sql_query               |-> JStr(sql_query),
              token_usage             |-> token_usage(usage),
              status                  |-> "ok",
              error_message           |-> "None"]
        ELSE [natural_language_answer |->
                  JStr(IF raw_content # <<>> THEN raw_content ELSE FailedToParse),
              sql_query               |-> EmptyStr,
              token_usage             |-> token_usage(usage),
              status                  |-> "error",
              error_message           |-> "JSON parse error"]

\* llm_client.py 122-223
chat_result(outcome) ==
    IF outcome.kind = "raise" THEN handle_exception("BackendError")
    ELSE IF outcome.kind = "none" THEN handle_exception("AttributeError")
    ELSE LET content == cleaned_content(outcome.content)
             parsed  == json_loads(content)
         IN  IF parsed.ok
             THEN parsed_result(parsed.val, outcome.usage)
             ELSE fallback_result(content, outcome.usage)

\* the exceptions completions.create raises in the model: two that are no
\* JSONDecodeError, and a JSONDecodeError (from the client reading the body
\* of the HTTP response)
Failures == {"APIConnectionError", "AuthenticationError", "JSONDecodeError"}

\* llm_client.py 174-223: what chat returns when completions.create raises
\* e; content and token_usage are not among the locals then
raise_result(e) ==
    IF except_clause(e) = "decode"
    THEN fallback_result(<<>>, NoUsage)
    ELSE handle_exception(e)

(***************************************************************************)
(* json.dumps of the dict built at server.py 233-236 (default separators,  *)
(* ensure_ascii).                                                          *)
(***************************************************************************)
\* json.encoder ESCAPE_DCT / ESCAPE_ASCII: how one character is written
encode_char(c) ==
    CASE c = DQ   -> <<BSL, DQ>>
      [] c = BSL  -> <<BSL, BSL>>
      [] c = NL   -> <<BSL, "n">>
      [] c = CR   -> <<BSL, "r">>
      [] c = TAB  -> <<BSL, "t">>
      [] c = FF   -> <<BSL, "f">>
      [] c = "BS" -> <<BSL, "b">>
      [] c = SOH  -> <<BSL, "u", "0", "0", "0", "1">>
      [] c = DEL  -> <<BSL, "u", "0", "0", "7", "f">>
      [] c = "U"  -> <<BSL, "u", "U">>      \* the escape of that code point
      [] OTHER    -> <<c>>

encode_str(v) == <<DQ>> \o Flatten([k \in 1..Len(v) |-> encode_char(v[k])]) \o <<DQ>>

RECURSIVE encode_items(_, _)
RECURSIVE encode_value(_)

\* the items of a list or dict, separated by a comma and a space
encode_items(items, k) ==
    IF k > Len(items) THEN <<>>
    ELSE (IF k > 1 THEN <<",", SP>> ELSE <<>>)
         \o items[k] \o encode_items(items, k + 1)

encode_value(val) ==
    CASE val.t = "str" -> encode_str(val.v)
      [] val.t = "num" -> val.v
      [] val.t = "lit" -> val.v
      [] val.t = "arr" ->
            <<"[">> \o encode_items([k \in 1..Len(val.v) |->
                                        encode_value(val.v[k])], 1) \o <<"]">>
      [] val.t = "obj" ->
            <<"{">> \o encode_items([k \in 1..Len(val.v) |->
                          encode_str(val.v[k][1]) \o <<":", SP>>
                          \o encode_value(val.v[k][2])], 1) \o <<"}">>

json_dumps(val) == encode_value(val)

(***************************************************************************)
(* The server: module state of server.py and RequestHandler._handle_chat   *)
(* under HTTPServer.serve_forever.                                         *)
(***************************************************************************)
W == 20                \* server.py 239: the slice bound

MaxRequests == 11      \* requests the clients send in one run
MaxFaults   == 1       \* malformed requests and unusual backend outcomes
MaxOther    == 2       \* requests on a session other than A

SessionIds == {"A", "B"}

\* each client waits for the response to its request before it sends another
Clients == {"c1", "c2"}

\* the n-th message a client sends on a session (all distinct per session)
Msg(n) == [k \in 1..n |-> "x"]

\* request bodies that do not reach chat: not JSON at all, or JSON that is
\* no ChatRequest (session_id or message missing or ill-typed)
BadRequestKinds == {"not_json", "bad_fields"}

\* the reply of a backend that follows the output contract
PlainReply ==
    <<"{", DQ, "a", "n", "s", "w", "e", "r", DQ, ":", DQ, "a", BSL, DQ, "b", DQ,
      ",", DQ, "s", "q", "l", "_", "q", "u", "e", "r", "y", DQ, ":", DQ, "q", DQ, "}">>

\* free text
TextReply == <<"o", "o", "p", "s">>

\* an object whose answer is a number
NumberReply == <<"{", DQ, "a", "n", "s", "w", "e", "r", DQ, ":", "1", "}">>

\* valid JSON that is not an object
ListReply == <<"[", "]">>

SomeUsage == [prompt_tokens |-> 3, completion_tokens |-> Absent, total_tokens |-> 5]

PlainOutcome == Replied(PlainReply, SomeUsage)

ServerOutcomes ==
    {PlainOutcome, Raised, RepliedNone(NoUsage), Replied(TextReply, SomeUsage),
     Replied(NumberReply, NoUsage), Replied(ListReply, NoUsage)}

\* what chat returns for each of these outcomes
ServerResults == [outcome \in ServerOutcomes |-> chat_result(outcome)]

VARIABLES
    sessions,   \* server.py 19: session id -> list of turns
    pending,    \* requests the clients have sent, not yet accepted
    inflight,   \* handler activations waiting on their backend call
    last,       \* the exchange handled last and the response it got
    done,       \* how many requests have been answered
    sent,       \* per session id, how many requests its client has sent
    nFaults,    \* how much of MaxFaults is used
    oklog,      \* per session id, the exchanges whose result was ok, in order
    shape,      \* what the backend was asked to reply, as the reply was built
    chat_content,   \* llm_client.py 137-161: the local variable content of chat
    stage,      \* the position of chat in its normalisation of one reply
    failure,    \* the exception the backend call raised, none if it returned
    returned,   \* the dict chat returns
    reply_usage,    \* llm_client.py 140: response.usage of the reply
    environ,    \* os.environ when the server starts: variable name -> value
    llm_client, \* server.py 20: the client built at startup (provider, model)
    scan        \* one activation of _clean_json_string: its locals and position

\* the variables of the session store and those of one run of chat
storevars == <<sessions, pending, inflight, last, done, sent, nFaults, oklog>>
chatvars == <<shape, chat_content, stage, failure, returned, reply_usage>>
clientvars == <<environ, llm_client>>
scanvars == <<scan>>
vars == <<storevars, chatvars, clientvars, scanvars>>

(***************************************************************************)
(* LLMClient.__init__: the provider and the model are read from the        *)
(* environment.  An environment is a function from the names that are set  *)
(* to their values; a value may be the empty string.                       *)
(***************************************************************************)
EnvNames ==
    {"AZURE_OPENAI_API_KEY", "AZURE_OPENAI_ENDPOINT", "OPENAI_API_KEY",
     "MODEL_NAME", "AZURE_OPENAI_DEPLOYMENT"}

\* the value a name has when it is set to something
EnvValue(name) ==
    CASE name = "MODEL_NAME" -> "model-x"
      [] name = "AZURE_OPENAI_DEPLOYMENT" -> "deploy-y"
      [] OTHER -> "secret"

\* every name is unset, set to the empty string, or set to its value
Envs ==
    {[name \in D |-> IF name \in E THEN "" ELSE EnvValue(name)] :
        D \in SUBSET EnvNames, E \in SUBSET EnvNames}

NoEnv == [name \in {} |-> ""]

\* env_loader.py 47-49: os.environ.get(key, default)
get_env(env, key, default) == IF key \in DOMAIN env THEN env[key] ELSE default

\* a slip: or for and
_detect_provider_either(env) ==
    LET azure_key      == get_env(env, "AZURE_OPENAI_API_KEY", "")
        azure_endpoint == get_env(env, "AZURE_OPENAI_ENDPOINT", "")
        openai_key     == get_env(env, "OPENAI_API_KEY", "")
    IN  IF azure_key # "" \/ azure_endpoint # "" THEN "azure"
        ELSE IF openai_key # "" THEN "openai"
        ELSE "ollama"

\* llm_client.py 44-58: a str is true when it is not empty
_detect_provider(env) ==
    LET azure_key      == get_env(env, "AZURE_OPENAI_API_KEY", "")
        azure_endpoint == get_env(env, "AZURE_OPENAI_ENDPOINT", "")
        openai_key     == get_env(env, "OPENAI_API_KEY", "")
    IN  IF azure_key # "" /\ azure_endpoint # "" THEN "azure"
        ELSE IF openai_key # "" THEN "openai"
        ELSE "ollama"

\* llm_client.py 60-78: self.model after _create_client
_create_client(env, provider, model) ==
    IF provider = "azure" THEN get_env(env, "AZURE_OPENAI_DEPLOYMENT", model)
    ELSE IF provider = "openai" THEN get_env(env, "MODEL_NAME", "gpt-4o-mini")
    ELSE model

\* llm_client.py 39-42
LLMClient(env) ==
    LET provider == _detect_provider(env)
        model    == get_env(env, "MODEL_NAME", "llama3.2")
    IN  [provider |-> provider, model |-> _create_client(env, provider, model)]

Turn(role, text) == [role |-> role, content |-> text]

\* sessions.get(s, []) as a reader sees it
History(s) == IF s \in DOMAIN sessions THEN sessions[s] ELSE <<>>

SystemMessage == Turn("system", <<"S", "Y", "S", "T", "E", "M">>)

\* a slip: the new turn is put before the history
full_messages_history_last(messages, session_history) ==
    <<SystemMessage>> \o messages \o session_history

\* llm_client.py 116-120
full_messages(messages, session_history) ==
    <<SystemMessage>> \o session_history \o messages

\* a slip: seq[:n], the first n, for seq[-n:]
slice_first(seq, n) ==
    IF Len(seq) <= n THEN seq ELSE SubSeq(seq, 1, n)

\* seq[-n:]
slice_last(seq, n) ==
    IF Len(seq) <= n THEN seq ELSE SubSeq(seq, Len(seq) - n + 1, Len(seq))

\* server.py 233-236: the assistant turn's content
assistant_content(result) ==
    json_dumps(JObj(<<<<KeyAnswer, result.natural_language_answer>>,
                      <<KeySqlQuery, result.sql_query>>>>))

\* a slip: the list is cut to the window before the turns are appended
update_history_cut_first(history, message, result) ==
    IF result.status = "ok"
    THEN slice_last(history, W) \o <<Turn("user", message),
                                      Turn("assistant", assistant_content(result))>>
    ELSE history

\* a slip: the turns are appended whatever the status
update_history_always(history, message, result) ==
    slice_last(history \o <<Turn("user", message),
                            Turn("assistant", assistant_content(result))>>, W)

\* a slip: the assistant turn is appended before the user turn
update_history_assistant_first(history, message, result) ==
    IF result.status = "ok"
    THEN slice_last(history \o <<Turn("assistant", assistant_content(result)),
                                 Turn("user", message)>>, W)
    ELSE history

\* a slip: the list is cut to an odd number of turns
update_history_odd_window(history, message, result) ==
    IF result.status = "ok"
    THEN slice_last(history \o <<Turn("user", message),
                                 Turn("assistant", assistant_content(result))>>,
                    W - 1)
    ELSE history

\* server.py 228-239: the session's list after the result is known
update_history(history, message, result) ==
    IF result.status = "ok"
    THEN slice_last(history \o <<Turn("user", message),
                                 Turn("assistant", assistant_content(result))>>, W)
    ELSE history

\* server.py 241-247: ChatResponse(**result) validates the result; a field
\* of the wrong type raises, and the caller gets a 500
response_code(result) ==
    IF result.natural_language_answer.t = "str" /\ result.sql_query.t = "str"
    THEN 200 ELSE 500

\* a slip: a threading server, which accepts a request while another is
\* being handled
server_idle_threading == TRUE

\* server.py 257, 268: HTTPServer.serve_forever handles one request at a
\* time, to the end, before it accepts the next
server_idle == inflight = {}

\* what is kept of the exchange handled last: the request's kind and session
\* id, the status of the chat result (none when chat was not reached) and
\* the HTTP status of the response
NoExchange == [kind |-> "none", session_id |-> "A", status |-> "none", code |-> 0,
               provider |-> "none", model |-> "none", calls |-> 0]

TotalSent == sent["A"] + sent["B"]

InitStore ==
    /\ sessions = <<>>
    /\ pending = <<>>
    /\ inflight = {}
    /\ last = NoExchange
    /\ done = 0
    /\ sent = [s \in SessionIds |-> 0]
    /\ nFaults = 0
    /\ oklog = [s \in SessionIds |-> <<>>]

\* no reply is being normalised step by step
NoShape == [form |-> "none", fenced |-> FALSE, has_answer |-> FALSE, answer |-> <<>>,
            has_sql |-> FALSE, sql |-> <<>>]

ChatIdle ==
    /\ shape = NoShape
    /\ chat_content = <<>>
    /\ stage = "idle"
    /\ failure = "none"
    /\ returned = exception_result("None")
    /\ reply_usage = NoUsage

\* a slip: the results of the except branches name the default backend
with_client_default(client, result) ==
    [natural_language_answer |-> result.natural_language_answer,
     sql_query               |-> result.sql_query,
     token_usage             |-> result.token_usage,
     status                  |-> result.status,
     error_message           |-> result.error_message,
     provider |-> IF result.status = "ok" THEN client.provider ELSE "ollama",
     model    |-> IF result.status = "ok" THEN client.model ELSE "llama3.2"]

\* llm_client.py 170-171, 197-198, 207-208, 219-220: every dict chat
\* returns carries self.provider and self.model
with_client(client, result) ==
    [natural_language_answer |-> result.natural_language_answer,
     sql_query               |-> result.sql_query,
     token_usage             |-> result.token_usage,
     status                  |-> result.status,
     error_message           |-> result.error_message,
     provider                |-> client.provider,
     model                   |-> client.model]

\* server.py 255: the client of a server started with nothing set
ClientDefault ==
    /\ environ = NoEnv
    /\ llm_client = LLMClient(NoEnv)

\* _clean_json_string is not running
ScanIdle ==
    scan = [input |-> <<>>, call |-> 0, stage |-> "idle", s |-> <<>>, pos |-> 0,
            locals |-> clean_start, char |-> "none", first |-> <<>>]

Init == InitStore /\ ChatIdle /\ ClientDefault /\ ScanIdle

\* the clients that wait for a response
Waiting == {pending[k].client : k \in 1..Len(pending)} \cup {h.client : h \in inflight}

\* the clients are alike, so one idle client stands for them all
IdleClient == CHOOSE idle \in Clients \ Waiting : TRUE

\* a client that is not waiting sends a well-formed chat request on session
\* s; it waits until the server accepts it
Arrive(s) ==
    /\ TotalSent < MaxRequests
    /\ s # "A" => sent[s] < MaxOther
    /\ Clients \ Waiting # {}
    /\ pending' = Append(pending, [kind |-> "chat", client |-> IdleClient,
                                   session_id |-> s,
                                   message |-> Msg(sent[s] + 1)])
    /\ sent' = [sent EXCEPT ![s] = @ + 1]
    /\ UNCHANGED <<sessions, inflight, last, done, nFaults, oklog>>
    /\ UNCHANGED <<chatvars, clientvars, scanvars>>

\* a client that is not waiting sends a malformed request
ArriveBad(kind) ==
    /\ nFaults < MaxFaults
    /\ Clients \ Waiting # {}
    /\ pending' = Append(pending, [kind |-> kind, client |-> IdleClient,
                                   session_id |-> "none", message |-> <<>>])
    /\ nFaults' = nFaults + 1
    /\ UNCHANGED <<sessions, inflight, last, done, sent, oklog>>
    /\ UNCHANGED <<chatvars, clientvars, scanvars>>

\* a slip: the session is fetched or created before the body is validated
RejectRequest_after_create ==
    /\ server_idle
    /\ pending # <<>>
    /\ Head(pending).kind # "chat"
    /\ LET request == Head(pending) IN
       /\ last' = [kind |-> request.kind, session_id |-> request.session_id,
                   status |-> "none",
                   code |-> IF request.kind = "not_json" THEN 400 ELSE 500,
                   provider |-> "none", model |-> "none", calls |-> 0]
       /\ sessions' = IF "B" \in DOMAIN sessions
                      THEN sessions
                      ELSE [s \in DOMAIN sessions \cup {"B"} |->
                               IF s = "B" THEN <<>> ELSE sessions[s]]
    /\ done' = done + 1
    /\ pending' = Tail(pending)
    /\ UNCHANGED <<inflight, sent, nFaults, oklog>>
    /\ UNCHANGED <<chatvars, clientvars, scanvars>>

\* server.py 207-214, 244-247: a request whose body is not JSON, or does
\* not validate as a ChatRequest, is answered 400 or 500
RejectRequest ==
    /\ server_idle
    /\ pending # <<>>
    /\ Head(pending).kind # "chat"
    /\ LET request == Head(pending) IN
       last' = [kind |-> request.kind, session_id |-> request.session_id,
                status |-> "none",
                code |-> IF request.kind = "not_json" THEN 400 ELSE 500,
                provider |-> "none", model |-> "none", calls |-> 0]
    /\ done' = done + 1
    /\ pending' = Tail(pending)
    /\ UNCHANGED <<sessions, inflight, sent, nFaults, oklog>>
    /\ UNCHANGED <<chatvars, clientvars, scanvars>>

StartChatEnabled ==
    /\ server_idle
    /\ pending # <<>>
    /\ Head(pending).kind = "chat"

\* server.py 207-226 and llm_client.py 112-134: the request is accepted and
\* validated, its session is fetched or created, the prompt is built and the
\* backend call is issued
StartChat ==
    /\ StartChatEnabled
    /\ LET request == Head(pending)
           created == IF request.session_id \in DOMAIN sessions
                      THEN sessions
                      ELSE [s \in DOMAIN sessions \cup {request.session_id} |->
                               IF s = request.session_id THEN <<>> ELSE sessions[s]]
           session_history == created[request.session_id]
       IN  /\ sessions' = created
           /\ inflight' = inflight \cup
                  {[client        |-> request.client,
                    session_id    |-> request.session_id,
                    message       |-> request.message,
                    full_messages |->
                        full_messages(<<Turn("user", request.message)>>,
                                      session_history),
                    calls         |-> 1]}
    /\ pending' = Tail(pending)
    /\ UNCHANGED <<last, done, sent, nFaults, oklog>>
    /\ UNCHANGED <<chatvars, clientvars, scanvars>>

\* a slip: the store is rebuilt with the session of the exchange alone
FinishChat_single_store(h, outcome) ==
    /\ h \in inflight
    /\ outcome # PlainOutcome => nFaults < MaxFaults
    /\ \E result \in {with_client(llm_client, ServerResults[outcome])} :
       /\ sessions' = [s \in {h.session_id} |->
                          update_history(sessions[s], h.message, result)]
       /\ last' = [kind |-> "chat", session_id |-> h.session_id,
                   status |-> result.status, code |-> response_code(result),
                   provider |-> result.provider, model |-> result.model,
                   calls |-> h.calls]
       /\ oklog' = IF result.status = "ok"
                   THEN [oklog EXCEPT ![h.session_id] =
                            Append(@, [message |-> h.message,
                                       answer  |-> result.natural_language_answer,
                                       sql_query |-> result.sql_query])]
                   ELSE oklog
    /\ nFaults' = IF outcome = PlainOutcome THEN nFaults ELSE nFaults + 1
    /\ inflight' = inflight \ {h}
    /\ done' = done + 1
    /\ UNCHANGED <<pending, sent>>
    /\ UNCHANGED <<chatvars, clientvars, scanvars>>

\* a slip: a call that failed is issued once more before the handler gives up
FinishChat_retry(h, outcome) ==
    /\ h \in inflight
    /\ outcome # PlainOutcome => nFaults < MaxFaults
    /\ \E result \in {with_client(llm_client, ServerResults[outcome])} :
       LET again == result.status = "error" /\ h.calls < 2
           final == [h EXCEPT !.calls = IF again THEN 2 ELSE @]
       IN
       /\ sessions' = [sessions EXCEPT ![h.session_id] =
                          update_history(@, h.message, result)]
       /\ last' = [kind |-> "chat", session_id |-> h.session_id,
                   status |-> result.status, code |-> response_code(result),
                   provider |-> result.provider, model |-> result.model,
                   calls |-> final.calls]
       /\ oklog' = IF result.status = "ok"
                   THEN [oklog EXCEPT ![h.session_id] =
                            Append(@, [message |-> h.message,
                                       answer  |-> result.natural_language_answer,
                                       sql_query |-> result.sql_query])]
                   ELSE oklog
    /\ nFaults' = IF outcome = PlainOutcome THEN nFaults ELSE nFaults + 1
    /\ inflight' = inflight \ {h}
    /\ done' = done + 1
    /\ UNCHANGED <<pending, sent>>
    /\ UNCHANGED <<chatvars, clientvars, scanvars>>

\* llm_client.py 134-223 and server.py 228-247: the backend call ends, its
\* outcome is normalised, the session is updated and the response is sent
FinishChat(h, outcome) ==
    /\ h \in inflight
    /\ outcome # PlainOutcome => nFaults < MaxFaults
    /\ \E result \in {with_client(llm_client, ServerResults[outcome])} :
       /\ sessions' = [sessions EXCEPT ![h.session_id] =
                          update_history(@, h.message, result)]
       /\ last' = [kind |-> "chat", session_id |-> h.session_id,
                   status |-> result.status, code |-> response_code(result),
                   provider |-> result.provider, model |-> result.model,
                   calls |-> h.calls]
       /\ oklog' = IF result.status = "ok"
                   THEN [oklog EXCEPT ![h.session_id] =
                            Append(@, [message |-> h.message,
                                       answer  |-> result.natural_language_answer,
                                       sql_query |-> result.sql_query])]
                   ELSE oklog
    /\ nFaults' = IF outcome = PlainOutcome THEN nFaults ELSE nFaults + 1
    /\ inflight' = inflight \ {h}
    /\ done' = done + 1
    /\ UNCHANGED <<pending, sent>>
    /\ UNCHANGED <<chatvars, clientvars, scanvars>>

Next ==
    \/ \E s \in SessionIds : Arrive(s)
    \/ \E kind \in BadRequestKinds : ArriveBad(kind)
    \/ RejectRequest
    \/ StartChat
    \/ \E h \in inflight, outcome \in ServerOutcomes : FinishChat(h, outcome)

Spec == Init /\ [][Next]_vars

(***************************************************************************)
(* Properties of the session store (checked under Spec).                   *)
(***************************************************************************)
\* the history a handler read when it built its prompt
PromptHistory(messages) == SubSeq(messages, 2, Len(messages) - 1)

\* the handler h ends in this step
Finishes(h) == h \in inflight /\ h \notin inflight'

\* C1: in every reachable state every session's history holds at most W = 20
\* turns
C1_WindowBound == \A s \in DOMAIN sessions : Len(sessions[s]) <= W

\* a session is full after more exchanges than the window holds
C1_Witness ==
    \E s \in DOMAIN sessions : Len(sessions[s]) = W /\ 2 * Len(oklog[s]) > W

\* C2: an exchange whose result has status error leaves the history of its
\* session exactly as it was when the exchange began, and changes no other
\* session
C2_ErrorLeavesHistory ==
    [][\A h \in inflight :
          (Finishes(h) /\ last'.status = "error") =>
              /\ History(h.session_id)' = PromptHistory(h.full_messages)
              /\ \A s \in SessionIds \ {h.session_id} : History(s)' = History(s)]_vars

\* a failed exchange has just ended on a session that has turns
C2_Witness ==
    /\ last.kind = "chat"
    /\ last.status = "error"
    /\ History(last.session_id) # <<>>

\* C3: requests for one session id are serialized: while a request is between
\* reading the history and appending to it, no other request for that id is,
\* and the stored history is still the one its prompt was built from
C3_Serialized ==
    \A h \in inflight :
        /\ PromptHistory(h.full_messages) = History(h.session_id)
        /\ \A g \in inflight : g.session_id = h.session_id => g = h

\* a request waits while another request for the same session id, which
\* already has turns, is with the backend
C3_Witness ==
    \E h \in inflight : \E k \in 1..Len(pending) :
        /\ pending[k].kind = "chat"
        /\ pending[k].session_id = h.session_id
        /\ History(h.session_id) # <<>>

\* C4 as the specification states it: a request for another session id can
\* start while a request is waiting on its backend call
C4_Independent ==
    (/\ pending # <<>>
     /\ Head(pending).kind = "chat"
     /\ inflight # {}
     /\ \A h \in inflight : h.session_id # Head(pending).session_id)
    => StartChatEnabled

\* C4 as amended: requests are handled one at a time whatever their session
\* ids: at most one request is with the backend, and while one is no other
\* request is started
C4_OneAtATime ==
    /\ Cardinality(inflight) <= 1
    /\ inflight # {} => ~StartChatEnabled

\* a request for one session id waits while a request for another is with
\* the backend
C4_Witness ==
    /\ pending # <<>>
    /\ Head(pending).kind = "chat"
    /\ \E h \in inflight : h.session_id # Head(pending).session_id

\* C5: after a successful exchange the stored history is the last W turns of
\* the history before it followed by the new user turn and the new assistant
\* turn: what is dropped is dropped from the front
C5_KeepsMostRecent ==
    [][\A h \in inflight :
          (Finishes(h) /\ last'.status = "ok") =>
              LET before == sessions[h.session_id]
                  after  == sessions'[h.session_id]
                  n      == Len(after)
              IN  /\ n = (IF Len(before) + 2 <= W THEN Len(before) + 2 ELSE W)
                  /\ after[n - 1] = Turn("user", h.message)
                  /\ after[n].role = "assistant"
                  /\ \A k \in 1..(n - 2) :
                         after[k] = before[Len(before) - (n - 2) + k]]_vars

\* a successful exchange has just ended on a session that was already full
C5_Witness ==
    /\ last.kind = "chat"
    /\ last.status = "ok"
    /\ 2 * Len(oklog[last.session_id]) > W
    /\ Len(History(last.session_id)) = W

\* the assistant contents the outcomes of the model can produce, decoded
OkContents ==
    {assistant_content(ServerResults[o]) :
        o \in {x \in ServerOutcomes : ServerResults[x].status = "ok"}}

Decoded == [c \in OkContents |-> json_loads(c)]

\* content is a JSON object with exactly the keys answer and sql_query, in
\* this order, holding the logged exchange's values
Serializes(text, exchange) ==
    /\ text \in OkContents
    /\ Decoded[text].ok
    /\ Decoded[text].val.t = "obj"
    /\ Len(Decoded[text].val.v) = 2
    /\ Decoded[text].val.v[1] = <<KeyAnswer, exchange.answer>>
    /\ Decoded[text].val.v[2] = <<KeySqlQuery, exchange.sql_query>>

\* C6: while a session has had at most W/2 successful exchanges, its history
\* is exactly their turns in call order, a user turn with the message and an
\* assistant turn with the serialized answer and query for each; failed
\* exchanges have left nothing
C6_TwoTurnsPerOk ==
    \A s \in SessionIds :
        2 * Len(oklog[s]) <= W =>
            /\ Len(History(s)) = 2 * Len(oklog[s])
            /\ \A i \in 1..Len(oklog[s]) :
                   /\ History(s)[2 * i - 1] = Turn("user", oklog[s][i].message)
                   /\ History(s)[2 * i].role = "assistant"
                   /\ Serializes(History(s)[2 * i].content, oklog[s][i])

\* an exchange has just failed on a session that has had two successful ones
\* and more requests than those
C6_Witness ==
    /\ last.kind = "chat"
    /\ last.status = "error"
    /\ Len(oklog[last.session_id]) >= 2
    /\ 2 * Len(oklog[last.session_id]) <= W

\* the handler h starts in this step
Starts(h) == h \in inflight' /\ h \notin inflight

\* C15: the message list sent to the backend is the fixed system message,
\* then every turn of the session's stored history in its stored order, then
\* one user turn with the incoming message; assembling it changes no stored
\* history
C15_PromptAssembled ==
    [][\A h \in inflight' :
          Starts(h) =>
             /\ pending # <<>>
             /\ h.session_id = Head(pending).session_id
             /\ h.full_messages =
                    <<SystemMessage>> \o History(h.session_id)
                        \o <<Turn("user", Head(pending).message)>>
             /\ \A s \in SessionIds : History(s)' = History(s)]_vars

\* a prompt has been built on a session that has turns stored
C15_Witness ==
    \E h \in inflight :
       /\ Len(h.full_messages) >= 6
       /\ History(h.session_id) # <<>>

\* the server takes a malformed request in this step
Rejects ==
    /\ pending # <<>>
    /\ Head(pending).kind \in BadRequestKinds
    /\ pending' = Tail(pending)

\* C16: a chat request whose body is not JSON, or lacks a well-typed
\* session_id or message, is answered without a backend call, and the store
\* keeps its keys and every history
C16_MalformedRejected ==
    [][Rejects =>
          /\ sessions' = sessions
          /\ inflight' = inflight
          /\ last'.calls = 0
          /\ last'.code \in {400, 500}]_vars

\* a request with bad fields has just been rejected by a server that holds
\* one session with turns, and has never seen the other
C16_Witness ==
    /\ last.kind = "bad_fields"
    /\ last.code = 500
    /\ DOMAIN sessions = {"A"}
    /\ sessions["A"] # <<>>

\* C18: every handled chat request issues exactly one backend call, and when
\* the call fails the error result is returned with no further call
C18_OneCallNoRetry ==
    [][/\ \A h \in inflight' : Starts(h) => h.calls = 1
       /\ \A h \in inflight :
             Finishes(h) =>
                /\ last'.kind = "chat"
                /\ last'.calls = 1
                /\ last'.status = "error" => last'.calls = h.calls]_vars

\* a chat request has just been answered with an error after its one call
C18_Witness ==
    /\ last.kind = "chat"
    /\ last.status = "error"
    /\ last.calls = 1
    /\ inflight = {}

(***************************************************************************)
(* One run of LLMClient.chat on one reply, step by step (SpecNorm).  The   *)
(* reply is built from a shape: the values the backend means to give under *)
(* answer and sql_query, and the text it wraps them in.                    *)
(***************************************************************************)
MaxValueLen == 2

\* the characters a field value is made of
ValueChars == {"a", DQ, BSL, NL, DEL}

Values == UNION {[1..n -> ValueChars] : n \in 0..MaxValueLen}

SqlValues == {<<>>, <<"q">>, <<DQ, NL>>}

\* compact: a JSON object with no whitespace;  spaced: the same object with
\* whitespace around its tokens;  rawnl: compact, but a newline in the answer
\* value is written raw;  cut: compact without its closing brace;  prose:
\* compact with words in front of it;  text: words and then the characters of
\* the answer value as they are, with no key;  array: a JSON array holding
\* the answer value
Forms == {"compact", "spaced", "rawnl", "cut", "prose", "text", "array"}

Shapes ==
    {sh \in [form : Forms, fenced : BOOLEAN,
             has_answer : BOOLEAN, answer : Values,
             has_sql : BOOLEAN, sql : SqlValues] :
        /\ ~sh.has_answer => sh.answer = <<>>
        /\ ~sh.has_sql => sh.sql = <<>>
        /\ sh.form \in {"text", "array"} => ~sh.has_sql}

\* a character of a value as JSON text writes it
EscapeChar(c) ==
    CASE c = DQ  -> <<BSL, DQ>>
      [] c = BSL -> <<BSL, BSL>>
      [] c = NL  -> <<BSL, "n">>
      [] OTHER   -> <<c>>

StringText(v, raw_newline) ==
    <<DQ>> \o Flatten([k \in 1..Len(v) |->
                          IF raw_newline /\ v[k] = NL THEN <<NL>>
                          ELSE EscapeChar(v[k])]) \o <<DQ>>

MemberText(key, v, colon, raw_newline) ==
    <<DQ>> \o key \o <<DQ>> \o colon \o StringText(v, raw_newline)

ObjectText(sh, open, colon, comma, close) ==
    LET raw == sh.form = "rawnl"
        a   == MemberText(KeyAnswer, sh.answer, colon, raw)
        q   == MemberText(KeySqlQuery, sh.sql, colon, FALSE)
    IN  open \o (IF sh.has_answer THEN a ELSE <<>>)
             \o (IF sh.has_answer /\ sh.has_sql THEN comma ELSE <<>>)
             \o (IF sh.has_sql THEN q ELSE <<>>)
             \o close

BodyText(sh) ==
    CASE sh.form = "spaced" ->
             ObjectText(sh, <<SP, "{", NL, TAB>>, <<SP, ":", SP>>,
                        <<",", NL, TAB>>, <<NL, "}", NL>>)
      [] sh.form = "cut" ->
             ObjectText(sh, <<"{">>, <<":">>, <<",">>, <<>>)
      [] sh.form = "prose" ->
             <<"o", "k", ":", SP>> \o ObjectText(sh, <<"{">>, <<":">>, <<",">>, <<"}">>)
      [] sh.form = "text" ->
             <<"n", "o", SP>> \o sh.answer
      [] sh.form = "array" ->
             <<"[">> \o (IF sh.has_answer THEN StringText(sh.answer, FALSE) ELSE <<>>)
                    \o <<"]">>
      [] OTHER ->
             ObjectText(sh, <<"{">>, <<":">>, <<",">>, <<"}">>)

\* the reply: the body, inside a fence with a language tag when fenced
ReplyText(sh) ==
    IF sh.fenced
    THEN Fence \o <<"j", "s", "o", "n", NL>> \o BodyText(sh) \o <<NL>> \o Fence
    ELSE BodyText(sh)

\* llm_client.py 112-134: chat has built its messages and calls the backend
InitNorm ==
    /\ InitStore
    /\ shape = NoShape
    /\ chat_content = <<>>
    /\ stage = "called"
    /\ failure = "none"
    /\ returned = exception_result("None")
    /\ reply_usage = NoUsage
    /\ ClientDefault
    /\ ScanIdle

UsageFields == {"prompt_tokens", "completion_tokens", "total_tokens"}

\* the counts a backend reports
UsageCounts == {0, 7}

\* the replies whose usage object is tried in every form (the handling of
\* usage does not look at the text of the reply beyond the branch it takes)
VariedUsage(sh) ==
    /\ ~sh.fenced
    /\ sh.has_answer => sh.answer = <<"a">>
    /\ sh.has_sql => sh.sql = <<"q">>

\* response.usage: any of its attributes may be missing or None; NoUsage is
\* also a reply with no usage object at all
Usages(sh) ==
    IF VariedUsage(sh)
    THEN [UsageFields -> UsageCounts \cup {Absent}]
    ELSE {SomeUsage}

\* llm_client.py 134-145: the call returns a reply
BackendReplies ==
    /\ stage = "called"
    /\ \E sh \in Shapes :
          /\ shape' = sh
          /\ chat_content' = ReplyText(sh)
          /\ reply_usage' \in Usages(sh)
    /\ stage' = "reply"
    /\ UNCHANGED <<failure, returned, storevars, clientvars, scanvars>>

\* llm_client.py 134, 174-223: the call raises
BackendRaises ==
    /\ stage = "called"
    /\ \E e \in Failures :
          /\ failure' = e
          /\ returned' = raise_result(e)
    /\ stage' = "done"
    /\ UNCHANGED <<shape, chat_content, reply_usage, storevars, clientvars, scanvars>>

\* a reply whose message content is None
NullShape == [NoShape EXCEPT !.form = "null"]

\* llm_client.py 134-145: the call returns a reply with no content
BackendRepliesNone ==
    /\ stage = "called"
    /\ shape' = NullShape
    /\ chat_content' = <<>>
    /\ reply_usage' \in {NoUsage, SomeUsage}
    /\ stage' = "reply"
    /\ UNCHANGED <<failure, returned, storevars, clientvars, scanvars>>

\* llm_client.py 148, 212-223: None has no strip
StripRaises ==
    /\ stage = "reply"
    /\ shape.form = "null"
    /\ returned' = handle_exception("AttributeError")
    /\ stage' = "done"
    /\ UNCHANGED <<shape, chat_content, failure, reply_usage, storevars, clientvars, scanvars>>

\* llm_client.py 148
Strip ==
    /\ stage = "reply"
    /\ shape.form # "null"
    /\ chat_content' = strip(chat_content)
    /\ stage' = "stripped"
    /\ UNCHANGED <<shape, failure, returned, reply_usage, storevars, clientvars, scanvars>>

\* llm_client.py 150-158
RemoveCodeBlock ==
    /\ stage = "stripped"
    /\ chat_content' = remove_code_block(chat_content)
    /\ stage' = "unfenced"
    /\ UNCHANGED <<shape, failure, returned, reply_usage, storevars, clientvars, scanvars>>

\* llm_client.py 161
CleanJsonString ==
    /\ stage = "unfenced"
    /\ chat_content' = _clean_json_string(chat_content)
    /\ stage' = "cleaned"
    /\ UNCHANGED <<shape, failure, returned, reply_usage, storevars, clientvars, scanvars>>

\* llm_client.py 163-173: json.loads returns
ParseStrict ==
    /\ stage = "cleaned"
    /\ LET parsed == json_loads(chat_content) IN
       /\ parsed.ok
       /\ returned' = parsed_result(parsed.val, reply_usage)
    /\ stage' = "done"
    /\ UNCHANGED <<shape, chat_content, failure, reply_usage, storevars, clientvars, scanvars>>

\* llm_client.py 163, 174-211: json.loads raises JSONDecodeError
ExtractFallback ==
    /\ stage = "cleaned"
    /\ ~json_loads(chat_content).ok
    /\ returned' = fallback_result(chat_content, reply_usage)
    /\ stage' = "done"
    /\ UNCHANGED <<shape, chat_content, failure, reply_usage, storevars, clientvars, scanvars>>

NextNorm ==
    \/ BackendReplies
    \/ BackendRepliesNone
    \/ BackendRaises
    \/ Strip
    \/ StripRaises
    \/ RemoveCodeBlock
    \/ CleanJsonString
    \/ ParseStrict
    \/ ExtractFallback

SpecNorm == InitNorm /\ [][NextNorm]_vars

\* the steps compose to chat
StepsAreChat ==
    (stage = "done" /\ failure = "none") =>
        returned = chat_result(IF shape.form = "null"
                               THEN RepliedNone(reply_usage)
                               ELSE Replied(ReplyText(shape), reply_usage))

(***************************************************************************)
(* Properties of the normaliser (checked under SpecNorm).                  *)
(***************************************************************************)
Chars(v) == {v[k] : k \in 1..Len(v)}

WithoutDel(v) == SelectSeq(v, LAMBDA c : c # DEL)

\* the reply is a well-formed JSON object and nothing else
WellFormed(sh) == ~sh.fenced /\ sh.form \in {"compact", "spaced"}

\* the values the shape gives: a missing key stands for the empty string
MeantAnswer == IF shape.has_answer THEN shape.answer ELSE <<>>
MeantSql    == IF shape.has_sql THEN shape.sql ELSE <<>>

\* C7 as the specification states it: a reply that is a well-formed JSON
\* object gives status ok with answer and sql_query equal to the values of
\* the reply, character for character, and the empty string for a missing key
C7_Verbatim ==
    (stage = "done" /\ WellFormed(shape)) =>
        /\ returned.status = "ok"
        /\ returned.natural_language_answer = JStr(MeantAnswer)
        /\ returned.sql_query = JStr(MeantSql)

\* C7 as amended: a reply that is a well-formed JSON object gives status ok
\* with answer and sql_query equal to the values of the reply less their DEL
\* characters, which the sanitation removes; a missing key gives the empty
\* string
C7_VerbatimLessDel ==
    (stage = "done" /\ WellFormed(shape)) =>
        /\ returned.status = "ok"
        /\ returned.natural_language_answer = JStr(WithoutDel(MeantAnswer))
        /\ returned.sql_query = JStr(WithoutDel(MeantSql))

\* a well-formed reply, written with whitespace, whose answer has a DEL and
\* an escaped quote and whose sql_query key is missing, has been normalised
C7_Witness ==
    /\ stage = "done"
    /\ WellFormed(shape)
    /\ shape.form = "spaced"
    /\ shape.answer = <<DQ, DEL>>
    /\ ~shape.has_sql

\* status, answer and sql_query of two results are the same
SameNormalized(r1, r2) ==
    /\ r1.status = r2.status
    /\ r1.natural_language_answer = r2.natural_language_answer
    /\ r1.sql_query = r2.sql_query

\* C8: a body that is valid JSON, wrapped in a fence with a language tag on
\* its first line and a closing fence line, is normalised to the same
\* status, answer and sql_query as the body alone
C8_FenceIsTransparent ==
    (stage = "done" /\ shape.fenced /\ shape.form \in {"compact", "spaced"}) =>
        SameNormalized(returned,
                       chat_result(Replied(BodyText(shape), SomeUsage)))

\* a fenced object with both keys, an escaped quote in its answer, has been
\* normalised with status ok
C8_Witness ==
    /\ stage = "done"
    /\ shape.fenced
    /\ shape.form = "compact"
    /\ shape.has_sql
    /\ DQ \in Chars(shape.answer)
    /\ returned.status = "ok"

\* C9: a reply that is a JSON object but for a raw newline inside the answer
\* value gives status ok, and the answer has the newline where the value has
\* it: the answer is the value (less DEL characters, as for any reply)
C9_RawNewlineKept ==
    (stage = "done" /\ shape.form = "rawnl" /\ NL \in Chars(shape.answer)) =>
        /\ returned.status = "ok"
        /\ returned.natural_language_answer = JStr(WithoutDel(shape.answer))

\* a reply whose answer has an escaped quote and then a raw newline has been
\* normalised
C9_Witness ==
    /\ stage = "done"
    /\ shape.form = "rawnl"
    /\ ~shape.fenced
    /\ shape.answer = <<DQ, NL>>
    /\ returned.status = "ok"

\* the strict parse of the reply fails, and the reply holds an answer key
\* with a quoted, non-empty value made of letters, newlines and quotes
Recognizable(sh) ==
    /\ sh.form \in {"cut", "prose"}
    /\ sh.has_answer
    /\ sh.answer # <<>>
    /\ Chars(sh.answer) \subseteq {"a", NL, DQ}

\* C10: a reply that fails the strict parse but holds a recognizable answer
\* gives status ok with that answer, and with the sql_query value of the
\* reply, or the empty string when the reply has none
C10_AnswerRecovered ==
    (stage = "done" /\ Recognizable(shape)) =>
        /\ returned.status = "ok"
        /\ returned.natural_language_answer = JStr(shape.answer)
        /\ (~shape.has_sql => returned.sql_query = EmptyStr)
        /\ (shape.has_sql /\ Chars(shape.sql) \subseteq {"q"} =>
                returned.sql_query = JStr(shape.sql))

\* the reply holds no answer: the strict parse fails and there is no answer
\* key, or the reply is JSON but no object
Unrecoverable(sh) ==
    \/ sh.form \in {"cut", "prose"} /\ ~sh.has_answer
    \/ sh.form \in {"text", "array"}

\* the text of the reply without its fence and the whitespace around it
TextOf(sh) == strip(BodyText(sh))

\* C11: a reply from which neither the strict parse nor the fallback recovers
\* an answer gives status error, an empty sql_query, an error message, and
\* the text of the reply in answer (as it was sent or as sanitized, the
\* whitespace around it aside)
C11_TextSurfaced ==
    (stage = "done" /\ Unrecoverable(shape)) =>
        /\ returned.status = "error"
        /\ returned.sql_query = EmptyStr
        /\ returned.error_message # "None"
        /\ returned.natural_language_answer.t = "str"
        /\ strip(returned.natural_language_answer.v) \in
               {TextOf(shape), strip(_clean_json_string(TextOf(shape))),
                strip(_clean_json_string(BodyText(shape)))}

\* C12 as the specification states it: when the backend call fails before
\* any reply is received the result has status error, answer and sql_query
\* empty, the three token counts zero and an error message
C12_FailureAllEmpty ==
    (stage = "done" /\ failure # "none") =>
        /\ returned.status = "error"
        /\ returned.natural_language_answer = EmptyStr
        /\ returned.sql_query = EmptyStr
        /\ returned.token_usage = ZeroUsage
        /\ returned.error_message # "None"

\* C12 as amended: when the backend call fails before any reply is received
\* the result has status error, sql_query empty, the three token counts
\* zero and an error message recording the failure; answer is empty, unless
\* the failure is a JSONDecodeError, and then answer is the fixed text
\* Failed to parse response
C12_FailureResult ==
    (stage = "done" /\ failure # "none") =>
        /\ returned.status = "error"
        /\ returned.natural_language_answer =
               (IF failure = "JSONDecodeError" THEN JStr(FailedToParse) ELSE EmptyStr)
        /\ returned.sql_query = EmptyStr
        /\ returned.token_usage = ZeroUsage
        /\ returned.error_message =
               (IF failure = "JSONDecodeError" THEN "JSON parse error" ELSE failure)

\* the backend call has failed with an error of the connection
C12_Witness ==
    /\ stage = "done"
    /\ failure = "APIConnectionError"
    /\ shape = NoShape

(***************************************************************************)
(* The server started in any environment, serving a few chat requests and  *)
(* status requests (SpecSelect).                                           *)
(***************************************************************************)
MaxHandled == 2

\* server.py 253-257: run_server builds the client from the environment
InitSelect ==
    /\ InitStore
    /\ ChatIdle
    /\ environ \in Envs
    /\ llm_client = LLMClient(environ)
    /\ ScanIdle

\* a client sends one of the few chat requests
ArriveSelect(s) == TotalSent < MaxHandled /\ Arrive(s)

\* server.py 185-197: GET /api/status
HandleStatus ==
    /\ server_idle
    /\ last' = [kind |-> "status", session_id |-> "none", status |-> "running",
                code |-> 200,
                provider |-> llm_client.provider, model |-> llm_client.model,
                calls |-> 0]
    /\ UNCHANGED <<sessions, pending, inflight, done, sent, nFaults, oklog>>
    /\ UNCHANGED <<chatvars, clientvars, scanvars>>

NextSelect ==
    \/ \E s \in SessionIds : ArriveSelect(s)
    \/ StartChat
    \/ \E h \in inflight, outcome \in ServerOutcomes : FinishChat(h, outcome)
    \/ HandleStatus

SpecSelect == InitSelect /\ [][NextSelect]_vars

\* a name is set to a value that is not empty
Present(name) == name \in DOMAIN environ /\ environ[name] # ""

\* C13: whatever is present of the azure credential, the azure endpoint and
\* the openai credential, the provider is azure if and only if the azure
\* credential and endpoint are both present; otherwise openai if and only if
\* the openai credential is present; otherwise ollama
C13_ProviderPriority ==
    /\ llm_client.provider = "azure" <=>
           (Present("AZURE_OPENAI_API_KEY") /\ Present("AZURE_OPENAI_ENDPOINT"))
    /\ llm_client.provider = "openai" <=>
           (/\ ~(Present("AZURE_OPENAI_API_KEY") /\ Present("AZURE_OPENAI_ENDPOINT"))
            /\ Present("OPENAI_API_KEY"))
    /\ llm_client.provider = "ollama" <=>
           (/\ ~(Present("AZURE_OPENAI_API_KEY") /\ Present("AZURE_OPENAI_ENDPOINT"))
            /\ ~Present("OPENAI_API_KEY"))

\* the server runs with the azure credential and the openai credential but
\* no azure endpoint, and has answered a request
C13_Witness ==
    /\ Present("AZURE_OPENAI_API_KEY")
    /\ ~Present("AZURE_OPENAI_ENDPOINT")
    /\ Present("OPENAI_API_KEY")
    /\ llm_client.provider = "openai"
    /\ last.kind = "status"


\* C14: after startup the provider and the model never change, across chat
\* requests and status requests alike, and every chat result (ok or error)
\* and every status snapshot reports exactly that provider and model
C14_ProviderModelFixed ==
    [][/\ llm_client' = llm_client
       /\ last'.kind \in {"chat", "status"} =>
              /\ last'.provider = llm_client.provider
              /\ last'.model = llm_client.model]_vars

\* an azure server with a deployment name has answered a chat request with
\* an error and then reported its status
C14_Witness ==
    /\ llm_client = [provider |-> "azure", model |-> "deploy-y"]
    /\ last.kind = "status"
    /\ last.model = "deploy-y"
    /\ done >= 1
    /\ nFaults >= 1
    /\ \A s \in SessionIds : oklog[s] = <<>>

\* a usage object with every count present
FullUsage == [f \in UsageFields |-> 7]

\* C17: whichever of the usage counts of a reply are missing or None (all of
\* them when there is no usage object), the result reports zero for each
\* missing count and the reported count for each present one, and its status
\* is the status the same reply gets with every count present
C17_UsageDefaults ==
    (stage = "done" /\ failure = "none") =>
        /\ \A f \in UsageFields :
              returned.token_usage[f] =
                 IF reply_usage[f] = Absent THEN 0 ELSE reply_usage[f]
        /\ returned.status =
              chat_result(Replied(ReplyText(shape), FullUsage)).status

\* the reply as chat holds it after line 158: stripped, its fence removed,
\* not yet sanitized
FenceStripped(sh) == remove_code_block(strip(ReplyText(sh)))

\* C19: when the strict parse fails and the fallback recovers no answer, the
\* answer field holds the reply as it is after the fence is removed and
\* before the control characters are sanitized: raw newlines, tabs and
\* control bytes as the backend sent them
C19_SurfacedBeforeSanitation ==
    (/\ stage = "done"
     /\ failure = "none"
     /\ shape.form \notin {"array", "null"}
     /\ returned.status = "error") =>
        returned.natural_language_answer = JStr(FenceStripped(shape))

\* the values the fallback is claimed to restore: letters, newlines (sent
\* as backslash n) and at least one quote (sent as backslash quote)
HasEscapedQuote(v) == DQ \in Chars(v) /\ Chars(v) \subseteq {"a", NL, DQ}

\* C20: in the fallback, a quoted answer or sql_query value that holds
\* escaped quotes is matched up to its closing quote, and the recovered text
\* is the whole value with backslash-quote turned into a quote and backslash-n
\* into a newline
C20_EscapedQuotesKept ==
    (stage = "done" /\ failure = "none" /\ shape.form \in {"cut", "prose"}) =>
        /\ (shape.has_answer /\ HasEscapedQuote(shape.answer)) =>
               returned.natural_language_answer = JStr(shape.answer)
        /\ (/\ shape.has_answer
            /\ shape.answer = <<"a">>
            /\ shape.has_sql
            /\ HasEscapedQuote(shape.sql)) =>
               returned.sql_query = JStr(shape.sql)

(***************************************************************************)
(* _clean_json_string on any string, one loop iteration at a time, and     *)
(* then once more on what it returned (SpecClean).                         *)
(***************************************************************************)
MaxCleanLen == 4

\* a letter, the characters the scanner looks at, and a control character
\* that line 84 removes
CleanChars == {"a", DQ, BSL, NL, TAB, SOH}

CleanInputs == UNION {[1..n -> CleanChars] : n \in 0..MaxCleanLen}

\* a call of _clean_json_string(text), number call of the two
CleanCalled(text, call, first) ==
    [input |-> text, call |-> call, stage |-> "called", s |-> <<>>, pos |-> 0,
     locals |-> clean_start, char |-> "none", first |-> first]

InitClean ==
    /\ InitStore
    /\ ChatIdle
    /\ ClientDefault
    /\ \E text \in CleanInputs : scan = CleanCalled(text, 1, <<>>)

\* llm_client.py 84-89: the control characters are removed and the locals
\* of the scanner are set
RemoveControl ==
    /\ scan.stage = "called"
    /\ scan' = [scan EXCEPT !.stage = "scanning",
                            !.s = remove_control(scan.input),
                            !.pos = 1,
                            !.locals = clean_start]
    /\ UNCHANGED <<storevars, chatvars, clientvars>>

\* llm_client.py 90-109: one iteration of the loop
ScanChar ==
    /\ scan.stage = "scanning"
    /\ scan.pos <= Len(scan.s)
    /\ scan' = [scan EXCEPT !.char = scan.s[scan.pos],
                            !.locals = clean_step(scan.locals, scan.s[scan.pos]),
                            !.pos = @ + 1]
    /\ UNCHANGED <<storevars, chatvars, clientvars>>

\* llm_client.py 110: the loop is over and the result is joined and returned
ReturnClean ==
    /\ scan.stage = "scanning"
    /\ scan.pos > Len(scan.s)
    /\ scan' = [scan EXCEPT !.stage = "returned",
                            !.first = IF scan.call = 1 THEN scan.locals.result ELSE @]
    /\ UNCHANGED <<storevars, chatvars, clientvars>>

\* what the first call returned is sanitized again
CleanAgain ==
    /\ scan.stage = "returned"
    /\ scan.call = 1
    /\ scan' = CleanCalled(scan.first, 2, scan.first)
    /\ UNCHANGED <<storevars, chatvars, clientvars>>

NextClean ==
    \/ RemoveControl
    \/ ScanChar
    \/ ReturnClean
    \/ CleanAgain

SpecClean == InitClean /\ [][NextClean]_vars

\* the iterations compose to _clean_json_string
StepsAreClean ==
    scan.stage = "returned" => scan.locals.result = _clean_json_string(scan.input)

\* the scanner runs one iteration in this step
ScanStep == scan.stage = "scanning" /\ scan'.pos = scan.pos + 1

\* the three states the specification names, read off the scanner's flags
Phase(st) ==
    IF st.escape_next THEN "afterEscape"
    ELSE IF st.in_string THEN "insideString"
    ELSE "outsideString"

\* the values the two flags can take together
Configs == [in_string : BOOLEAN, escape_next : BOOLEAN, result : {<<>>}]

\* what one iteration appends to result
Emitted(before, after) ==
    SubSeq(after.result, Len(before.result) + 1, Len(after.result))

\* the two-character escape of a newline or tab
EscapeOf(char) == <<BSL, IF char = NL THEN "n" ELSE "t">>

\* C21 as the specification states it: the scan is a machine with the three
\* states outsideString, insideString and afterEscape, so what an iteration
\* appends and the state it leads to depend on nothing but the state the
\* scanner is in and the character it reads
C21_ThreeStateMachine ==
    [][ScanStep =>
          \A other \in Configs :
             Phase(other) = Phase(scan.locals) =>
                LET char == scan.s[scan.pos]
                    next == clean_step(other, char)
                IN  /\ Phase(next) = Phase(scan'.locals)
                    /\ next.result = Emitted(scan.locals, scan'.locals)]_vars

\* C21: the scan is a machine over inside/outside a string and plain/after a
\* backslash.  A backslash that is not itself escaped, inside a string or
\* outside, escapes the next character; an escaped character leaves the
\* scanner on the side it was on; a quote that is not escaped changes the
\* side; a newline or tab is replaced by its two-character escape exactly
\* when the scanner is inside a string and the character is not escaped;
\* every other character is appended unchanged, after what was appended
\* before; the characters of line 84 are removed beforehand
C21_FourStateMachine ==
    [][ScanStep =>
          LET char   == scan.s[scan.pos]
              before == scan.locals
              after  == scan'.locals
          IN  /\ scan.s = SelectSeq(scan.input, LAMBDA c : c \notin {SOH, FF, DEL})
              /\ after.escape_next = (~before.escape_next /\ char = BSL)
              /\ after.in_string =
                    IF char = DQ /\ ~before.escape_next
                    THEN ~before.in_string ELSE before.in_string
              /\ SubSeq(after.result, 1, Len(before.result)) = before.result
              /\ Emitted(before, after) =
                    IF /\ char \in {NL, TAB}
                       /\ before.in_string
                       /\ ~before.escape_next
                    THEN EscapeOf(char) ELSE <<char>>]_vars

\* a backslash outside a string has escaped a quote, the next quote has
\* opened a string, and a newline in it has been replaced
C21_Witness ==
    /\ scan.call = 1
    /\ scan.stage = "returned"
    /\ scan.input = <<BSL, DQ, DQ, NL>>
    /\ scan.locals.result = <<BSL, DQ, DQ, BSL, "n">>
    /\ scan.locals.in_string

\* C26: the sanitizer is idempotent: sanitizing what it returned gives that
\* same string again, for every input string
C26_Idempotent ==
    /\ (scan.call = 1 /\ scan.stage = "returned") =>
          _clean_json_string(_clean_json_string(scan.input)) =
             _clean_json_string(scan.input)
    /\ (scan.call = 2 /\ scan.stage = "returned") =>
          scan.locals.result = scan.first

\* the second call has returned on a string in which the first call
\* replaced a newline
C26_Witness ==
    /\ scan.call = 2
    /\ scan.stage = "returned"
    /\ scan.first = <<DQ, BSL, "n", DQ>>
    /\ scan.locals.result = <<DQ, BSL, "n", DQ>>

\* C22: whatever the backend does (any reply text, valid JSON that is no
\* object, a reply with no content, a raised failure), chat returns a result
\* with status ok or error, token counts, and an error message when the
\* status is error; no exception reaches its caller
C22_AlwaysStructured ==
    stage = "done" =>
        /\ returned.status \in {"ok", "error"}
        /\ \A f \in UsageFields : returned.token_usage[f] \in Nat
        /\ returned.status = "error" <=> returned.error_message # "None"

\* chat has returned an error result for a reply with no content
C22_Witness ==
    /\ stage = "done"
    /\ shape.form = "null"
    /\ failure = "none"
    /\ returned.status = "error"
    /\ returned.error_message = "AttributeError"

\* C23: turns are appended to a session only in an exchange whose caller is
\* sent a result with status ok; no exchange appends turns and then answers
\* its caller with an error, however building the response goes
C23_AppendOnlyWhenDeliveredOk ==
    [][\A h \in inflight :
          (Finishes(h) /\ History(h.session_id)' # History(h.session_id)) =>
             /\ last'.status = "ok"
             /\ last'.code = 200]_vars

\* C24: an exchange on one session id, whether it ends ok or in an error,
\* leaves the history of every other session id as it was, and no step
\* removes a key from the store
C24_OtherSessionsUntouched ==
    [][/\ DOMAIN sessions \subseteq DOMAIN sessions'
       /\ \A h \in inflight' \cup inflight :
             (Starts(h) \/ Finishes(h)) =>
                \A s \in SessionIds \ {h.session_id} :
                   /\ History(s)' = History(s)
                   /\ (s \in DOMAIN sessions' <=> s \in DOMAIN sessions)]_vars

\* an exchange on session B has just ended in an error while session A
\* holds turns
C24_Witness ==
    /\ last.kind = "chat"
    /\ last.session_id = "B"
    /\ last.status = "error"
    /\ "A" \in DOMAIN sessions
    /\ sessions["A"] # <<>>
    /\ "B" \in DOMAIN sessions

\* C25: in every reachable state every session's history has an even number
\* of turns whose roles alternate, user first, also when the window has
\* dropped old turns
C25_Alternates ==
    \A s \in DOMAIN sessions :
       /\ Len(sessions[s]) % 2 = 0
       /\ \A k \in 1..Len(sessions[s]) :
             sessions[s][k].role = IF k % 2 = 1 THEN "user" ELSE "assistant"

\* a session is full and has had more exchanges than the window holds
C25_Witness ==
    \E s \in DOMAIN sessions :
       /\ Len(sessions[s]) = W
       /\ 2 * Len(oklog[s]) > W
       /\ sessions[s][1].role = "user"

=========================================================================
